---- MODULE Spec2Model ----
(***************************************************************************)
(* Met Eireann weather warnings: the coordinator's processing pipeline.    *)
(* The raw feed payload is normalised record by record, filtered by the   *)
(* configured area scope and folded into the published snapshot           *)
(* (src/__init__.py, MetEireannDataUpdateCoordinator).                      *)
(*                                                                         *)
(* Python values are modelled as follows.                                  *)
(*   - a string field of a JSON object is a string; ABSENT stands for a    *)
(*     key the object does not have and NONE for JSON null / Python None;  *)
(*   - the "regions" field is a tagged value [t, v]: t = "list" with the   *)
(*     codes in v, t = "none" for null, t = "absent" for a missing key;    *)
(*   - a feed element is [kind, type, level, status, regions] with kind    *)
(*     "dict" for a JSON object and "str", "int", "null" for the others;   *)
(*   - a payload is [kind, items, n]: "list" holds items; "dict" is a JSON *)
(*     object with n keys, {} when n = 0 and {"features": [{"properties":  *)
(*     r} for r in items]} when n = 1; "str" and "int" are scalars whose   *)
(*     length / value is n; "none" is null;                                *)
(*   - an exception leaving a function is an outcome of kind "raised".     *)
(* The pass-through fields (id, capId, issued, updated, onset, expiry,     *)
(* headline, description, instruction, severity, certainty, urgency) are   *)
(* read with dict.get and copied; no decision reads them, and they are     *)
(* left out of the records.                                                *)
(***************************************************************************)
EXTENDS Integers, Sequences, FiniteSets

VARIABLES area_config, data, result, pc,
          published, fetch, http, last_update, prev_update, observed,
          flow, created

vars == <<area_config, data, result, pc,
          published, fetch, http, last_update, prev_update, observed,
          flow, created>>

(* The coordinator's refresh cycle and its readers. *)
cycleVars == <<published, fetch, http, last_update, prev_update, observed>>

(* The setup wizard. *)
flowVars == <<flow, created>>

ABSENT == "<absent>"
NONE == "<None>"

(* The longest feed list drawn. *)
MaxLen == 2

-----------------------------------------------------------------------------
(* Area catalog: src/custom_components/met_eireann_warnings/const.py *)

(* The keys of COUNTIES. *)
COUNTIES ==
  {"carlow", "cavan", "clare", "cork", "donegal", "dublin", "galway", "kerry",
   "kildare", "kilkenny", "laois", "leitrim", "limerick", "longford", "louth",
   "mayo", "meath", "monaghan", "offaly", "roscommon", "sligo", "tipperary",
   "waterford", "westmeath", "wexford", "wicklow"}

(* The keys of REGIONS. *)
REGIONS == {"connacht", "leinster", "munster", "ulster"}

REGION_TO_COUNTIES_Overlap ==
  [r \in {"connacht", "leinster", "munster", "ulster"} |->
     CASE r = "connacht" -> {"galway", "mayo", "roscommon", "sligo", "leitrim",
                             "cavan"}
       [] r = "leinster" -> {"dublin", "wicklow", "wexford", "carlow", "kilkenny",
                             "laois", "longford", "louth", "meath", "offaly",
                             "westmeath", "kildare"}
       [] r = "munster"  -> {"cork", "kerry", "limerick", "tipperary",
                             "waterford", "clare"}
       [] r = "ulster"   -> {"cavan", "donegal", "monaghan"}]

REGION_TO_COUNTIES ==
  [r \in {"connacht", "leinster", "munster", "ulster"} |->
     CASE r = "connacht" -> {"galway", "mayo", "roscommon", "sligo", "leitrim"}
       [] r = "leinster" -> {"dublin", "wicklow", "wexford", "carlow", "kilkenny",
                             "laois", "longford", "louth", "meath", "offaly",
                             "westmeath", "kildare"}
       [] r = "munster"  -> {"cork", "kerry", "limerick", "tipperary",
                             "waterford", "clare"}
       [] r = "ulster"   -> {"cavan", "donegal", "monaghan"}]

REGION_CODES ==
  [c \in {"EI01", "EI02", "EI03", "EI04", "EI06", "EI07", "EI10", "EI11", "EI12",
          "EI13", "EI14", "EI15", "EI16", "EI18", "EI19", "EI20", "EI21", "EI22",
          "EI23", "EI24", "EI25", "EI26", "EI27", "EI29", "EI30", "EI31"} |->
     CASE c = "EI01" -> "carlow"    [] c = "EI02" -> "cavan"
       [] c = "EI03" -> "clare"     [] c = "EI04" -> "cork"
       [] c = "EI06" -> "donegal"   [] c = "EI07" -> "dublin"
       [] c = "EI10" -> "galway"    [] c = "EI11" -> "kerry"
       [] c = "EI12" -> "kildare"   [] c = "EI13" -> "kilkenny"
       [] c = "EI14" -> "leitrim"   [] c = "EI15" -> "laois"
       [] c = "EI16" -> "limerick"  [] c = "EI18" -> "longford"
       [] c = "EI19" -> "louth"     [] c = "EI20" -> "mayo"
       [] c = "EI21" -> "meath"     [] c = "EI22" -> "monaghan"
       [] c = "EI23" -> "offaly"    [] c = "EI24" -> "roscommon"
       [] c = "EI25" -> "sligo"     [] c = "EI26" -> "tipperary"
       [] c = "EI27" -> "waterford" [] c = "EI29" -> "westmeath"
       [] c = "EI30" -> "wexford"   [] c = "EI31" -> "wicklow"]

-----------------------------------------------------------------------------
(* Python primitives *)

(* str.lower() on the strings the model draws. *)
Lower(s) ==
  CASE s = "Warning" -> "warning"
    [] s = "ACTIVE"  -> "active"
    [] s = "Expired" -> "expired"
    [] s = "Orange"  -> "orange"
    [] s = "RED"     -> "red"
    [] OTHER         -> s

(* dict.get(key, default) on a string field. *)
Get(v, default) == IF v = ABSENT THEN default ELSE v

PyList(codes) == [t |-> "list", v |-> codes]
PyNoneList == [t |-> "none", v |-> <<>>]
AbsentList == [t |-> "absent", v |-> <<>>]

(* dict.get("regions", []) *)
GetRegions(r) == IF r.t = "absent" THEN PyList(<<>>) ELSE r

(* bool(data): None, an empty container, an empty string and 0 are falsy. *)
Truthy(d) ==
  CASE d.kind = "none" -> FALSE
    [] d.kind = "list" -> Len(d.items) > 0
    [] OTHER           -> d.n # 0

Range(s) == {s[i] : i \in 1..Len(s)}

-----------------------------------------------------------------------------
(* _should_include_warning: the area filter *)

(* area_config.get(key, default): the area configuration is {} after       *)
(* construction (every key ABSENT) and holds all three keys after setup.   *)
AreaType(cfg) == Get(cfg.area_type, "whole_ireland")

SelectedRegions(cfg) ==
  IF cfg.selected_regions.t = "absent" THEN {} ELSE cfg.selected_regions.v

SelectedCounties(cfg) ==
  IF cfg.selected_counties.t = "absent" THEN {} ELSE cfg.selected_counties.v

(* REGION_CODES.get(code): None for a code that is not in the table. *)
RegionCodesGet_Fallback(code) ==
  IF code \in DOMAIN REGION_CODES THEN REGION_CODES[code] ELSE "dublin"

RegionCodesGet(code) ==
  IF code \in DOMAIN REGION_CODES THEN REGION_CODES[code] ELSE NONE

(* The loop that resolves the warning's codes: the counties found. *)
WarningCounties(warning) ==
  {RegionCodesGet(warning.regions.v[i]) : i \in 1..Len(warning.regions.v)} \ {NONE, ""}

(* REGION_TO_COUNTIES.get(selected_region, []) *)
RegionCounties(selected_region) ==
  IF selected_region \in DOMAIN REGION_TO_COUNTIES
    THEN REGION_TO_COUNTIES[selected_region] ELSE {}

(* The filter raises TypeError when it iterates over regions = None, which *)
(* it does for every area type but whole_ireland.                          *)
ShouldIncludeRaises(cfg, warning) ==
  AreaType(cfg) # "whole_ireland" /\ warning.regions.t = "none"

IncludeByRegions_Codes(cfg, warning) ==
  \E selected_region \in SelectedRegions(cfg) :
    \E i \in 1..Len(warning.regions.v) :
      warning.regions.v[i] \in RegionCounties(selected_region)

IncludeByRegions(cfg, warning) ==
  \E selected_region \in SelectedRegions(cfg) :
    \E warning_county \in WarningCounties(warning) :
      warning_county \in RegionCounties(selected_region)

IncludeByCounties_All(cfg, warning) ==
  \A warning_county \in WarningCounties(warning) :
    warning_county \in SelectedCounties(cfg)

IncludeByCounties(cfg, warning) ==
  \E warning_county \in WarningCounties(warning) :
    warning_county \in SelectedCounties(cfg)

_should_include_warning_FailClosed(cfg, warning) ==
  CASE AreaType(cfg) = "whole_ireland" -> TRUE
    [] AreaType(cfg) = "regions"       -> IncludeByRegions(cfg, warning)
    [] AreaType(cfg) = "counties"      -> IncludeByCounties(cfg, warning)
    [] OTHER                           -> FALSE

_should_include_warning(cfg, warning) ==
  CASE AreaType(cfg) = "whole_ireland" -> TRUE
    [] AreaType(cfg) = "regions"       -> IncludeByRegions(cfg, warning)
    [] AreaType(cfg) = "counties"      -> IncludeByCounties(cfg, warning)
    [] OTHER                           -> TRUE

-----------------------------------------------------------------------------
(* _process_warnings_data: normalise, filter, aggregate *)

EmptySnapshot ==
  [kind |-> "ok", exc |-> NONE,
   warnings |-> <<>>,
   active_warnings_count |-> 0,
   highest_warning_level |-> NONE,
   warning_types |-> {},
   regions_affected |-> {}]

Raised(exc) == [EmptySnapshot EXCEPT !.kind = "raised", !.exc = exc]

NoResult == [EmptySnapshot EXCEPT !.kind = "none"]

(* The canonical warning built from one JSON object. *)
Normalize(warning_data) ==
  [type    |-> Get(warning_data.type, NONE),
   level   |-> Get(warning_data.level, NONE),
   regions |-> GetRegions(warning_data.regions),
   status  |-> Lower(Get(warning_data.status, ""))]

(* Building the warning raises AttributeError when the element has no      *)
(* .get (it is not an object) or when its status is null (None.lower()).   *)
NormalizeRaises(warning_data) ==
  \/ warning_data.kind # "dict"
  \/ warning_data.status = NONE

IsActiveStatus_Narrow(status) == status \in {"actual", "active"}

IsActiveStatus(status) == status \in {"warning", "actual", "active"}

UpdateHighest_LastWins(highest, level) ==
  IF level \in {"red", "orange", "yellow"} THEN level ELSE highest

UpdateHighest(highest, level) ==
  IF level \in {"red", "orange", "yellow"}
    THEN IF highest = NONE THEN level
         ELSE IF level = "red" THEN "red"
         ELSE IF level = "orange" /\ highest # "red" THEN "orange"
         ELSE highest
    ELSE highest

(* The tracking of one included warning. warning.get("level", "") finds    *)
(* the key (the warning always has it), so an absent level is None and     *)
(* None.lower() raises AttributeError.                                     *)
TrackWarning_TypesAlways(acc, warning) ==
  LET typed == [acc EXCEPT !.warning_types =
                  IF warning.type \notin {NONE, ""} THEN @ \cup {warning.type} ELSE @]
  IN IF ~IsActiveStatus(warning.status) THEN typed
     ELSE IF warning.level = NONE THEN Raised("AttributeError")
     ELSE [typed EXCEPT
             !.active_warnings_count = @ + 1,
             !.regions_affected = @ \cup Range(warning.regions.v),
             !.highest_warning_level = UpdateHighest(@, Lower(warning.level))]

TrackWarning(acc, warning) ==
  IF ~IsActiveStatus(warning.status) THEN acc
  ELSE IF warning.level = NONE THEN Raised("AttributeError")
  ELSE [acc EXCEPT
          !.active_warnings_count = @ + 1,
          !.warning_types =
             IF warning.type \notin {NONE, ""} THEN @ \cup {warning.type} ELSE @,
          !.regions_affected = @ \cup Range(warning.regions.v),
          !.highest_warning_level = UpdateHighest(@, Lower(warning.level))]

(* One iteration of the loop over warnings_list. *)
ProcessOne(cfg, acc, warning_data) ==
  IF NormalizeRaises(warning_data) THEN Raised("AttributeError")
  ELSE LET warning == Normalize(warning_data) IN
    IF ShouldIncludeRaises(cfg, warning) THEN Raised("TypeError")
    ELSE IF ~_should_include_warning(cfg, warning) THEN acc
    ELSE TrackWarning([acc EXCEPT !.warnings = Append(@, warning)], warning)

RECURSIVE ProcessLoop(_, _, _, _)
ProcessLoop(cfg, acc, warnings_list, i) ==
  IF acc.kind = "raised" \/ i > Len(warnings_list) THEN acc
  ELSE ProcessLoop(cfg, ProcessOne(cfg, acc, warnings_list[i]), warnings_list, i + 1)

(* warnings_list = data if isinstance(data, list) else [] *)
WarningsList_Unwrap(d) == d.items

WarningsList_Iterate(d) ==
  IF d.kind = "list" THEN d.items ELSE [i \in 1..d.n |-> [kind |-> "str"]]

WarningsList(d) == IF d.kind = "list" THEN d.items ELSE <<>>

ProcessWarningsData(cfg, d) ==
  IF ~Truthy(d) THEN EmptySnapshot
  ELSE ProcessLoop(cfg, EmptySnapshot, WarningsList(d), 1)

-----------------------------------------------------------------------------
(* The inputs drawn *)

(* The longest "features" array drawn for a JSON object payload. *)
MaxFeatures == 1

Dict(status, level, type, regions) ==
  [kind |-> "dict", status |-> status, level |-> level, type |-> type,
   regions |-> regions]

(* A feed element that is not a JSON object: a string, a number or null. *)
NotDict(kind) ==
  [kind |-> kind, status |-> ABSENT, level |-> ABSENT, type |-> ABSENT,
   regions |-> AbsentList]

StatusVals == {ABSENT, NONE, "Warning", "actual", "ACTIVE", "Expired"}
LevelVals == {ABSENT, NONE, "red", "Orange", "yellow", "green"}
TypeVals == {ABSENT, NONE, "", "wind", "rain"}
RegionVals ==
  {AbsentList, PyNoneList, PyList(<<>>), PyList(<<"EI07">>), PyList(<<"EI04">>),
   PyList(<<"EI01">>), PyList(<<"ZZ99">>), PyList(<<"ZZ99", "EI04">>),
   PyList(<<"EI07", "EI02">>)}

BaseRecord == Dict("Warning", "red", "wind", PyList(<<"EI07">>))

(* The objects drawn: the base record with at most one field changed. *)
Objects ==
  {[BaseRecord EXCEPT !.status = s] : s \in StatusVals}
    \cup {[BaseRecord EXCEPT !.level = l] : l \in LevelVals}
    \cup {[BaseRecord EXCEPT !.type = t] : t \in TypeVals}
    \cup {[BaseRecord EXCEPT !.regions = r] : r \in RegionVals}

Elements == Objects \cup {NotDict("str"), NotDict("int"), NotDict("null")}

SeqsUpTo(S, n) == UNION {[1..k -> S] : k \in 0..n}

Payload(kind, items, n) == [kind |-> kind, items |-> items, n |-> n]

Payloads ==
  {Payload("none", <<>>, 0)}
    \cup {Payload("list", items, 0) : items \in SeqsUpTo(Elements, MaxLen)}
    \cup {Payload("dict", <<>>, 0)}
    \cup {Payload("dict", items, 1) : items \in SeqsUpTo(Elements, MaxFeatures)}
    \cup {Payload(k, <<>>, n) : k \in {"str", "int"}, n \in {0, 1}}

(* A selection is a Python list; the filter only tests membership in it,   *)
(* so it is kept as the set of its elements.                               *)
Selection(set) == [t |-> "list", v |-> set]
NoSelection == [t |-> "absent", v |-> {}]

RegionSelections ==
  {NoSelection, Selection({}), Selection({"leinster"}), Selection({"munster"}),
   Selection({"leinster", "ulster"}), Selection({"atlantis"})}

CountySelections ==
  {NoSelection, Selection({}), Selection({"dublin"}), Selection({"cork"}),
   Selection({"dublin", "cavan"})}

(* entry.data of the config entries drawn. *)
Entries ==
  {[area_type |-> a, selected_regions |-> NoSelection,
    selected_counties |-> NoSelection] : a \in {ABSENT, "whole_ireland", "other"}}
    \cup {[area_type |-> "regions", selected_regions |-> r,
           selected_counties |-> NoSelection] : r \in RegionSelections}
    \cup {[area_type |-> "counties", selected_regions |-> NoSelection,
           selected_counties |-> c] : c \in CountySelections}
    \cup {[area_type |-> a, selected_regions |-> Selection({"munster"}),
           selected_counties |-> Selection({"cork"})] :
             a \in {ABSENT, "whole_ireland", "other"}}

(* What the HTTP request of a fetch ends in: asyncio.TimeoutError or       *)
(* aiohttp.ClientError (from session.get or from response.json()), or a    *)
(* response with its status.                                               *)
Response(event, status) == [event |-> event, status |-> status]
NoResponse == Response("none", 0)

Responses ==
  {Response("timeout", 0), Response("client_error", 0)}
    \cup {Response("response", st) : st \in {200, 204, 404, 500}}

(* The payloads drawn for the refresh cycles. *)
CyclePayloads ==
  {Payload("none", <<>>, 0),
   Payload("list", <<BaseRecord>>, 0),
   Payload("list", <<[BaseRecord EXCEPT !.status = "Expired"]>>, 0),
   Payload("list", <<[BaseRecord EXCEPT !.level = "yellow"],
                     [BaseRecord EXCEPT !.regions = PyList(<<"EI04">>)]>>, 0),
   Payload("list", <<BaseRecord, NotDict("str")>>, 0),
   Payload("dict", <<BaseRecord>>, 1)}

(* ConfigFlow.config_data = {}: 0 and ABSENT stand for a missing key. *)
(* user_input of a step handler: the fields of the form that was submitted, *)
(* ABSENT / 0 / NoSelection for the fields the form does not have.          *)
UserInput(step, polling_interval, area_type, selected) ==
  [step |-> step, polling_interval |-> polling_interval,
   area_type |-> area_type, selected |-> selected]

NoInput == UserInput(NONE, 0, ABSENT, NoSelection)

EmptyConfigData ==
  [polling_interval |-> 0, area_type |-> ABSENT,
   selected_regions |-> NoSelection, selected_counties |-> NoSelection]

NoEntry == [made |-> FALSE, data |-> EmptyConfigData]

-----------------------------------------------------------------------------
(* The coordinator *)

(* MetEireannDataUpdateCoordinator.__init__: area_config = {} *)
Init ==
  /\ area_config = [area_type |-> ABSENT, selected_regions |-> NoSelection,
                    selected_counties |-> NoSelection]
  /\ data = Payload("none", <<>>, 0)
  /\ result = NoResult
  /\ pc = "constructed"
  /\ published = NoResult
  /\ fetch = "idle"
  /\ http = NoResponse
  /\ last_update = "none"
  /\ prev_update = "none"
  /\ observed = NoResult
  /\ flow = [step |-> "start", errors |-> NONE, check |-> NoResponse,
             user_input |-> NoInput, config_data |-> EmptyConfigData]
  /\ created = NoEntry

(* async_setup_entry sets the area configuration from the entry, each key  *)
(* with its default.                                                       *)
async_setup_entry ==
  /\ pc = "constructed"
  /\ \E entry \in Entries :
       area_config' =
         [area_type |-> Get(entry.area_type, "whole_ireland"),
          selected_regions |->
            IF entry.selected_regions.t = "absent" THEN Selection({})
            ELSE entry.selected_regions,
          selected_counties |->
            IF entry.selected_counties.t = "absent" THEN Selection({})
            ELSE entry.selected_counties]
  /\ pc' = "ready"
  /\ UNCHANGED <<data, result, cycleVars, flowVars>>

(* One call of _process_warnings_data on a payload from the feed. *)
process_warnings_data ==
  /\ pc \in {"constructed", "ready"}
  /\ \E d \in Payloads :
       /\ data' = d
       /\ result' = ProcessWarningsData(area_config, d)
  /\ pc' = "done"
  /\ UNCHANGED <<area_config, cycleVars, flowVars>>

Next == async_setup_entry \/ process_warnings_data

Spec == Init /\ [][Next]_vars

-----------------------------------------------------------------------------
(* Properties *)

(* The call has returned a snapshot (it did not raise). *)
Returned == pc = "done" /\ result.kind = "ok"

ActiveStatuses == {"warning", "actual", "active"}

(* The entries of the snapshot's warnings list that are active. *)
ActiveWarnings == {w \in Range(result.warnings) : w.status \in ActiveStatuses}

(* The feed element is active, its status compared case-insensitively. *)
RawActive(warning_data) ==
  Lower(Get(warning_data.status, "")) \in ActiveStatuses

(* The feed as the warnings it normalises to, filtered or not. *)
Normalized(items) == [i \in 1..Len(items) |-> Normalize(items[i])]

IsEmptySnapshot(r) ==
  /\ r.kind = "ok"
  /\ r.warnings = <<>>
  /\ r.active_warnings_count = 0
  /\ r.highest_warning_level = NONE
  /\ r.warning_types = {}
  /\ r.regions_affected = {}

SameAggregates(r1, r2) ==
  /\ r1.active_warnings_count = r2.active_warnings_count
  /\ r1.highest_warning_level = r2.highest_warning_level
  /\ r1.warning_types = r2.warning_types
  /\ r1.regions_affected = r2.regions_affected

(* C1: in every returned snapshot, active_warnings_count is the number of *)
(* entries of its warnings list whose status is warning, actual or active. *)
C1_ActiveCount ==
  Returned =>
    result.active_warnings_count =
      Cardinality({i \in 1..Len(result.warnings) :
                     result.warnings[i].status \in {"warning", "actual", "active"}})

C1_Witness ==
  /\ Returned
  /\ Len(result.warnings) = 2
  /\ result.active_warnings_count = 1

(* C2: a warning that passes the area filter with a status outside the    *)
(* active set is in the warnings list and contributes nothing: the types  *)
(* are exactly the non-empty types, and the regions exactly the codes, of *)
(* the active warnings of the list, and the feed without its inactive     *)
(* elements gives the same count, types, regions and highest level.       *)
C2_InactiveRetainedNotCounted ==
  (Returned /\ data.kind = "list") =>
    /\ \A i \in 1..Len(data.items) :
         LET w == Normalize(data.items[i]) IN
           (_should_include_warning(area_config, w) /\ w.status \notin ActiveStatuses)
             => w \in Range(result.warnings)
    /\ result.warning_types =
         {w.type : w \in {a \in ActiveWarnings : a.type \notin {NONE, ""}}}
    /\ result.regions_affected = UNION {Range(w.regions.v) : w \in ActiveWarnings}
    /\ LET onlyActive ==
             ProcessWarningsData(area_config,
                                 Payload("list", SelectSeq(data.items, RawActive), 0))
       IN onlyActive.kind = "ok" /\ SameAggregates(result, onlyActive)

C2_Witness ==
  /\ Returned
  /\ \E w \in Range(result.warnings) :
       /\ w.status = "expired"
       /\ w.level = "red"
       /\ w.type = "wind"
  /\ result.active_warnings_count = 1
  /\ result.highest_warning_level = "yellow"
  /\ result.warning_types = {"wind"}

Orderings(n) == {f \in [1..n -> 1..n] : \A i, j \in 1..n : f[i] = f[j] => i = j}

(* The levels, lowercased, of the active warnings of the list. *)
ActiveLevels == {Lower(w.level) : w \in ActiveWarnings}

(* C3: highest_warning_level is red if an active warning is red, else     *)
(* orange if one is orange, else yellow if one is yellow, else absent,    *)
(* and every permutation of the feed gives the same level.                *)
C3_HighestLevel ==
  (Returned /\ data.kind = "list") =>
    /\ result.highest_warning_level =
         IF "red" \in ActiveLevels THEN "red"
         ELSE IF "orange" \in ActiveLevels THEN "orange"
         ELSE IF "yellow" \in ActiveLevels THEN "yellow"
         ELSE NONE
    /\ \A f \in Orderings(Len(data.items)) :
         LET permuted ==
               ProcessWarningsData(area_config,
                 Payload("list", [i \in 1..Len(data.items) |-> data.items[f[i]]], 0))
         IN /\ permuted.kind = "ok"
            /\ permuted.highest_warning_level = result.highest_warning_level

C3_Witness ==
  /\ Returned
  /\ Len(result.warnings) = 2
  /\ result.warnings[1].status \in ActiveStatuses
  /\ result.warnings[2].status \in ActiveStatuses
  /\ Lower(result.warnings[1].level) = "red"
  /\ Lower(result.warnings[2].level) = "orange"
  /\ result.highest_warning_level = "red"

(* The feed with the elements that are not objects left out. *)
IsObject(warning_data) == warning_data.kind = "dict"

(* C4: a feed list with an element that is not an object is processed as  *)
(* the same list without that element: the call returns, and its snapshot  *)
(* is that of the objects alone.                                           *)
C4_MalformedRecordSkipped ==
  (/\ pc = "done"
   /\ data.kind = "list"
   /\ \E i \in 1..Len(data.items) : ~IsObject(data.items[i])
   /\ \E i \in 1..Len(data.items) : IsObject(data.items[i]))
    => LET valid ==
             ProcessWarningsData(area_config,
                                 Payload("list", SelectSeq(data.items, IsObject), 0))
       IN valid.kind = "ok" => result = valid

(* C5: a feed of objects, whatever fields they lack or hold as null, is    *)
(* processed without raising: an absent status is the empty string and is  *)
(* inactive, and an active warning without a level leaves the highest      *)
(* level as it was.                                                        *)
C5_MissingFieldsNeverRaise ==
  (/\ pc = "done"
   /\ data.kind = "list"
   /\ \A i \in 1..Len(data.items) : IsObject(data.items[i]))
    => /\ result.kind = "ok"
       /\ \A i \in 1..Len(data.items) :
            data.items[i].status = ABSENT => Normalize(data.items[i]).status = ""

(* The payload is a JSON object with a "features" array. *)
IsFeatures(d) == d.kind = "dict" /\ d.n = 1

C7_EmptyPayloadEmptySnapshot ==
  (/\ pc = "done"
   /\ \/ data.kind = "none"
      \/ data.kind = "list" /\ data.items = <<>>
      \/ data.kind = "dict" /\ data.n = 0
      \/ data.kind \in {"str", "int"})
    => IsEmptySnapshot(result)

C7_Witness ==
  /\ pc = "done"
  /\ data.kind = "str"
  /\ data.n = 1
  /\ IsEmptySnapshot(result)

(* The codes of the warning that the provider-code table knows, as the     *)
(* counties it gives for them.                                             *)
ResolvedCounties(w) ==
  {REGION_CODES[c] : c \in Range(w.regions.v) \cap DOMAIN REGION_CODES}

(* The regions of REGION_TO_COUNTIES that hold one of the counties. *)
ResolvedRegions(w) ==
  {r \in DOMAIN REGION_TO_COUNTIES : ResolvedCounties(w) \cap REGION_TO_COUNTIES[r] # {}}

MatchesCounties(w) == ResolvedCounties(w) \cap area_config.selected_counties.v # {}

MatchesRegions(w) == ResolvedRegions(w) \cap area_config.selected_regions.v # {}

(* C8: under area_type counties the warnings list holds exactly the        *)
(* warnings of the feed, in order, with a region code that resolves to a   *)
(* selected county; with no county selected it is empty.                   *)
C8_ByCounty ==
  (Returned /\ data.kind = "list" /\ area_config.area_type = "counties") =>
    /\ result.warnings = SelectSeq(Normalized(data.items), MatchesCounties)
    /\ area_config.selected_counties.v = {} => result.warnings = <<>>

C8_Witness ==
  /\ Returned
  /\ area_config.area_type = "counties"
  /\ area_config.selected_counties.v = {"dublin"}
  /\ Len(data.items) = 2
  /\ data.items[1].regions = PyList(<<"EI04">>)
  /\ data.items[2].regions = PyList(<<"EI07">>)
  /\ Len(result.warnings) = 1
  /\ result.warnings[1].regions = PyList(<<"EI07">>)

(* C9: under area_type regions the warnings list holds exactly the         *)
(* warnings of the feed, in order, with a region code that resolves to a   *)
(* county of a selected region; a warning none of whose codes resolves is  *)
(* left out.                                                               *)
C9_ByRegion ==
  (Returned /\ data.kind = "list" /\ area_config.area_type = "regions") =>
    /\ result.warnings = SelectSeq(Normalized(data.items), MatchesRegions)
    /\ \A w \in Range(result.warnings) : ResolvedCounties(w) # {}

C9_Witness ==
  /\ Returned
  /\ area_config.area_type = "regions"
  /\ area_config.selected_regions.v = {"leinster"}
  /\ Len(data.items) = 2
  /\ data.items[1].regions = PyList(<<"EI01">>)
  /\ data.items[2].regions = PyList(<<"ZZ99">>)
  /\ Len(result.warnings) = 1
  /\ result.warnings[1].regions = PyList(<<"EI01">>)

(* The element is an object none of whose fields makes the call raise. *)
WellFormed(warning_data) ==
  /\ IsObject(warning_data)
  /\ warning_data.status # NONE
  /\ warning_data.regions.t # "none"
  /\ RawActive(warning_data) => warning_data.level \notin {ABSENT, NONE}

(* The warning has region codes and the table knows none of them. *)
OnlyUnknownCodes(w) ==
  /\ w.regions.v # <<>>
  /\ Range(w.regions.v) \cap DOMAIN REGION_CODES = {}

(* C10: a region code that is not in the provider-code table raises        *)
(* nothing; an active warning with it has the raw code in regions_affected *)
(* under the whole-country scope, and a warning with no other codes is in  *)
(* no snapshot under area_type regions or counties.                        *)
C10_UnknownRegionCode ==
  (pc = "done" /\ data.kind = "list") =>
    /\ (\A i \in 1..Len(data.items) : WellFormed(data.items[i])) => result.kind = "ok"
    /\ result.kind = "ok" =>
         \A w \in Range(Normalized(data.items)) :
           OnlyUnknownCodes(w) =>
             /\ (area_config.area_type = "whole_ireland" /\ w.status \in ActiveStatuses)
                  => Range(w.regions.v) \subseteq result.regions_affected
             /\ area_config.area_type \in {"regions", "counties"}
                  => w \notin Range(result.warnings)

C10_Witness ==
  /\ Returned
  /\ area_config.area_type = "whole_ireland"
  /\ data.kind = "list"
  /\ Len(data.items) = 1
  /\ data.items[1].regions = PyList(<<"ZZ99">>)
  /\ result.regions_affected = {"ZZ99"}

-----------------------------------------------------------------------------
(* The refresh cycle: _async_update_data under the update coordinator *)

(* _async_update_data: UpdateFailed on a timeout, a client error or a      *)
(* status other than 200; otherwise the snapshot (or the exception) of     *)
(* _process_warnings_data on the decoded payload.                          *)
AsyncUpdateData_NoStatusCheck(cfg, response, d) ==
  IF response.event \in {"timeout", "client_error"} THEN Raised("UpdateFailed")
  ELSE ProcessWarningsData(cfg, d)

(* The loop wrapped in a handler that returns what was built so far. *)
AsyncUpdateData_Partial(cfg, response, d) ==
  IF response.event \in {"timeout", "client_error"} THEN Raised("UpdateFailed")
  ELSE IF response.status # 200 THEN Raised("UpdateFailed")
  ELSE IF ProcessWarningsData(cfg, d).kind = "ok" THEN ProcessWarningsData(cfg, d)
  ELSE ProcessWarningsData(cfg, Payload("list", SubSeq(d.items, 1, 1), 0))

AsyncUpdateData(cfg, response, d) ==
  IF response.event = "timeout" THEN Raised("UpdateFailed")
  ELSE IF response.event = "client_error" THEN Raised("UpdateFailed")
  ELSE IF response.status # 200 THEN Raised("UpdateFailed")
  ELSE ProcessWarningsData(cfg, d)

(* The base class keeps coordinator.data unless _async_update_data returns *)
(* a value, and records how the refresh ended.                             *)
CoordinatorData(current, outcome) ==
  IF outcome.kind = "ok" THEN outcome ELSE current

LastUpdate(outcome) ==
  IF outcome.kind = "ok" THEN "ok"
  ELSE IF outcome.exc = "UpdateFailed" THEN "UpdateFailed"
  ELSE "error"

(* A refresh starts (first refresh, timer or request): _async_update_data  *)
(* runs up to its request and waits for the response.                      *)
start_refresh ==
  /\ pc = "ready"
  /\ fetch = "idle"
  /\ fetch' = "awaiting"
  /\ UNCHANGED <<area_config, data, result, pc, published, http, last_update,
                 prev_update, observed, flowVars>>

(* The request ends and _async_update_data finishes. *)
_async_update_data ==
  /\ fetch = "awaiting"
  /\ \E response \in Responses, d \in CyclePayloads :
       LET outcome == AsyncUpdateData(area_config, response, d)
           called == response.event = "response" /\ response.status = 200
       IN /\ http' = response
          /\ data' = IF called THEN d ELSE data
          /\ result' = IF called THEN outcome ELSE result
          /\ published' = CoordinatorData(published, outcome)
          /\ last_update' = LastUpdate(outcome)
  /\ prev_update' = last_update
  /\ fetch' = "idle"
  /\ UNCHANGED <<area_config, pc, observed, flowVars>>

(* A sensor reads coordinator.data; the sensors exist once the first       *)
(* refresh has succeeded.                                                  *)
native_value ==
  /\ pc = "ready"
  /\ published.kind = "ok"
  /\ observed' = published
  /\ UNCHANGED <<area_config, data, result, pc, published, fetch, http,
                 last_update, prev_update, flowVars>>

NextCycle == async_setup_entry \/ start_refresh \/ _async_update_data \/ native_value

SpecCycle == Init /\ [][NextCycle]_vars

(* The request ended in a failure the claim names: a timeout, a connection *)
(* error or a non-success status.                                          *)
TransportFailure(response) ==
  \/ response.event \in {"timeout", "client_error"}
  \/ response.event = "response" /\ response.status \notin 200..299

(* C11: a cycle that ends in a timeout, a connection error or a            *)
(* non-success status reports UpdateFailed, returns no snapshot and leaves *)
(* the published snapshot as the last successful cycle set it; the         *)
(* coordinator is then idle again, ready for the next cycle.               *)
C11_FailedCycleKeepsSnapshot ==
  [][(fetch = "awaiting" /\ fetch' = "idle" /\ TransportFailure(http'))
       => /\ last_update' = "UpdateFailed"
          /\ published' = published
          /\ result' = result
          /\ pc' = "ready"]_vars

C11_Witness ==
  /\ prev_update = "ok"
  /\ last_update = "UpdateFailed"
  /\ http = Response("response", 500)
  /\ published.kind = "ok"
  /\ published.active_warnings_count = 1
  /\ fetch = "awaiting"

(* C13: coordinator.data, and what a sensor has read from it, changes only *)
(* when a call of _process_warnings_data has finished, and then to the     *)
(* complete snapshot of that call on its payload; while a cycle waits, and *)
(* when it times out, fails or raises midway, both stay as they were.      *)
C13_NoPartialSnapshot ==
  [][/\ published' # published
          => /\ fetch = "awaiting" /\ fetch' = "idle"
             /\ http' = Response("response", 200)
             /\ published'.kind = "ok"
             /\ published' = ProcessWarningsData(area_config', data')
             /\ Len(published'.warnings) =
                  Cardinality({i \in 1..Len(WarningsList(data')) :
                     _should_include_warning(area_config',
                                             Normalize(WarningsList(data')[i]))})
     /\ observed' # observed
          => /\ observed' = published
             /\ published' = published]_vars

C13_Witness ==
  /\ last_update = "error"
  /\ result.kind = "raised"
  /\ data = Payload("list", <<BaseRecord, NotDict("str")>>, 0)
  /\ http = Response("response", 200)
  /\ published.kind = "ok"
  /\ published.warnings = <<>>
  /\ observed = published

-----------------------------------------------------------------------------
(* The config flow *)

(* What the request of validate_input can end in: as for a fetch, and a    *)
(* 200 response whose body response.json() cannot decode.                  *)
FlowResponses == Responses \cup {Response("bad_json", 200)}

(* The values the user form accepts for polling_interval (10..120, 30 when *)
(* left out).                                                              *)
PollingIntervals == {10, 30, 60, 120}

(* The options of the three selectors. *)
AreaTypes == {"whole_ireland", "regions", "counties"}
RegionOptions == SUBSET REGIONS
CountyOptions == SUBSET {"dublin", "cork", "cavan"}

(* validate_input: "ok" when it returns, else the exception it raises. *)
ValidateInput_AnyStatus(response) ==
  IF response.event \in {"timeout", "client_error"} THEN "CannotConnect"
  ELSE IF response.event = "bad_json" THEN "ValueError"
  ELSE "ok"

ValidateInput(response) ==
  IF response.event = "timeout" THEN "CannotConnect"
  ELSE IF response.event = "client_error" THEN "CannotConnect"
  ELSE IF response.status # 200 THEN "CannotConnect"
  ELSE IF response.event = "bad_json" THEN "ValueError"
  ELSE "ok"

(* `not selected_regions`, `not selected_counties` *)
EmptySelection_Never(selected) == FALSE

EmptySelection(selected) == selected.v = {}

(* async_create_entry(data = self.config_data) *)
CreateEntry(config_data) == [made |-> TRUE, data |-> config_data]

(* flow.step is the form the flow shows ("start" before the first, "done"  *)
(* once the entry is created), flow.errors the errors of the form shown    *)
(* last, flow.check what the request of the last validate_input ended in.  *)

(* async_step_user: without input it shows the user form; with input it    *)
(* runs validate_input, and goes on to the area form or shows the user     *)
(* form again with the error.                                              *)
async_step_user ==
  /\ \/ /\ flow.step = "start"
        /\ flow' = [flow EXCEPT !.step = "user"]
     \/ /\ flow.step = "user"
        /\ \E p \in PollingIntervals, response \in FlowResponses :
             LET info == ValidateInput(response)
                 input == UserInput("user", p, ABSENT, NoSelection)
             IN flow' =
                  IF info = "ok"
                  THEN [flow EXCEPT !.step = "area", !.errors = NONE,
                                    !.check = response, !.user_input = input,
                                    !.config_data.polling_interval = p]
                  ELSE [flow EXCEPT !.step = "user",
                                    !.errors = IF info = "CannotConnect"
                                               THEN "cannot_connect"
                                               ELSE "unknown",
                                    !.check = response, !.user_input = input]
  /\ UNCHANGED <<area_config, data, result, pc, cycleVars, created>>

(* async_step_area with the option chosen on the area form. *)
async_step_area ==
  /\ flow.step = "area"
  /\ \E a \in AreaTypes :
       LET config_data == [flow.config_data EXCEPT !.area_type = a]
           input == UserInput("area", 0, a, NoSelection)
       IN /\ flow' = [flow EXCEPT !.config_data = config_data,
                                  !.user_input = input,
                                  !.step = IF a = "whole_ireland" THEN "done" ELSE a]
          /\ created' = IF a = "whole_ireland" THEN CreateEntry(config_data)
                        ELSE created
  /\ UNCHANGED <<area_config, data, result, pc, cycleVars>>

(* async_step_regions with the selection submitted on the regions form. *)
async_step_regions ==
  /\ flow.step = "regions"
  /\ \E set \in RegionOptions :
       LET selected_regions == Selection(set)
           config_data == [flow.config_data EXCEPT
                             !.selected_regions = selected_regions]
           input == UserInput("regions", 0, ABSENT, selected_regions)
       IN IF EmptySelection(selected_regions)
          THEN /\ flow' = [flow EXCEPT !.errors = "selected_regions",
                                       !.user_input = input]
               /\ created' = created
          ELSE /\ flow' = [flow EXCEPT !.config_data = config_data,
                                       !.user_input = input,
                                       !.step = "done"]
               /\ created' = CreateEntry(config_data)
  /\ UNCHANGED <<area_config, data, result, pc, cycleVars>>

(* async_step_counties with the selection submitted on the counties form. *)
async_step_counties ==
  /\ flow.step = "counties"
  /\ \E set \in CountyOptions :
       LET selected_counties == Selection(set)
           config_data == [flow.config_data EXCEPT
                             !.selected_counties = selected_counties]
           input == UserInput("counties", 0, ABSENT, selected_counties)
       IN IF EmptySelection(selected_counties)
          THEN /\ flow' = [flow EXCEPT !.errors = "selected_counties",
                                       !.user_input = input]
               /\ created' = created
          ELSE /\ flow' = [flow EXCEPT !.config_data = config_data,
                                       !.user_input = input,
                                       !.step = "done"]
               /\ created' = CreateEntry(config_data)
  /\ UNCHANGED <<area_config, data, result, pc, cycleVars>>

NextFlow ==
  async_step_user \/ async_step_area \/ async_step_regions \/ async_step_counties

SpecFlow == Init /\ [][NextFlow]_vars

-----------------------------------------------------------------------------
(* Properties of the config flow and of the area catalog *)

(* C14: an entry created with area_type regions carries a non-empty        *)
(* selected_regions of region keys, one created with area_type counties a  *)
(* non-empty selected_counties of county keys; an empty selection          *)
(* submitted on the regions or counties form shows the same form again     *)
(* with its error and creates no entry.                                    *)
C14_NonEmptySelection ==
  /\ [](created.made =>
          /\ created.data.area_type = "regions" =>
               /\ created.data.selected_regions.t = "list"
               /\ created.data.selected_regions.v # {}
               /\ created.data.selected_regions.v \subseteq REGIONS
          /\ created.data.area_type = "counties" =>
               /\ created.data.selected_counties.t = "list"
               /\ created.data.selected_counties.v # {}
               /\ created.data.selected_counties.v \subseteq COUNTIES)
  /\ [][(/\ flow.step \in {"regions", "counties"}
         /\ flow'.user_input.step = flow.step
         /\ flow'.user_input.selected.v = {})
           => /\ flow'.step = flow.step
              /\ flow'.errors = (IF flow.step = "regions" THEN "selected_regions"
                                 ELSE "selected_counties")
              /\ flow'.config_data = flow.config_data
              /\ ~created'.made]_vars

C14_Witness ==
  /\ created.made
  /\ created.data.area_type = "regions"
  /\ created.data.selected_regions = Selection({"leinster", "ulster"})
  /\ created.data.selected_counties = NoSelection
  /\ flow.errors = "selected_regions"
  /\ flow.step = "done"

(* C15: REGION_TO_COUNTIES partitions the county catalog: its keys are the *)
(* 4 regions, each of the 26 counties is in exactly one region, and no     *)
(* region lists a key that COUNTIES lacks; so every county a warning of a  *)
(* snapshot resolves to lies in exactly one region.                        *)
C15_RegionsPartitionCounties ==
  /\ DOMAIN REGION_TO_COUNTIES = REGIONS
  /\ Cardinality(REGIONS) = 4
  /\ Cardinality(COUNTIES) = 26
  /\ \A county \in COUNTIES :
       Cardinality({r \in DOMAIN REGION_TO_COUNTIES :
                      county \in REGION_TO_COUNTIES[r]}) = 1
  /\ \A r \in DOMAIN REGION_TO_COUNTIES : REGION_TO_COUNTIES[r] \subseteq COUNTIES
  /\ \A r1, r2 \in DOMAIN REGION_TO_COUNTIES :
       r1 # r2 => REGION_TO_COUNTIES[r1] \cap REGION_TO_COUNTIES[r2] = {}
  /\ Returned =>
       \A w \in Range(result.warnings) : \A county \in ResolvedCounties(w) :
         /\ county \in COUNTIES
         /\ Cardinality({r \in REGIONS : county \in RegionCounties(r)}) = 1

C15_Witness ==
  /\ Returned
  /\ area_config.area_type = "regions"
  /\ area_config.selected_regions.v = {"leinster", "ulster"}
  /\ Len(data.items) = 2
  /\ data.items[1].regions = PyList(<<"EI04">>)
  /\ data.items[2].regions = PyList(<<"EI07">>)
  /\ Len(result.warnings) = 1
  /\ \E r \in area_config.selected_regions.v :
       REGION_CODES["EI07"] \in REGION_TO_COUNTIES[r]
  /\ \A r \in area_config.selected_regions.v :
       REGION_CODES["EI04"] \notin REGION_TO_COUNTIES[r]

(* C16: when the area type is whole_ireland, is missing, or is any value   *)
(* but regions and counties, the filter includes every warning: the        *)
(* warnings list is the whole feed, whatever the region codes of the       *)
(* warnings and whatever regions or counties are selected.                 *)
C16_FailsOpen ==
  (/\ pc = "done"
   /\ data.kind = "list"
   /\ Get(area_config.area_type, "whole_ireland") \notin {"regions", "counties"})
    => /\ Returned => result.warnings = Normalized(data.items)
       /\ (\A i \in 1..Len(data.items) : WellFormed(data.items[i]))
            => /\ Returned
               /\ \A i \in 1..Len(data.items) :
                    _should_include_warning(area_config, Normalize(data.items[i]))

C16_Witness ==
  /\ Returned
  /\ area_config.area_type = "other"
  /\ area_config.selected_regions = Selection({"munster"})
  /\ area_config.selected_counties = Selection({"cork"})
  /\ data.items = <<BaseRecord, [BaseRecord EXCEPT !.regions = PyList(<<"ZZ99">>)]>>
  /\ Len(result.warnings) = 2

(* The connectivity check failed as the claim names it: a timeout, a       *)
(* client error or a status that is not 200.                               *)
CheckFailed(response) ==
  \/ response.event \in {"timeout", "client_error"}
  \/ response.event = "response" /\ response.status # 200

CheckSucceeded(response) == response = Response("response", 200)

(* C17: the area form, the selection forms and the created entry are       *)
(* reached only after validate_input has succeeded in the user step, and   *)
(* an entry only after an area type was then chosen in the area step; a    *)
(* failed check shows the user form again with cannot_connect, and neither *)
(* moves on to the area step nor creates an entry.                         *)
C17_EntryOnlyAfterCheck ==
  /\ [](/\ (flow.step \in {"area", "regions", "counties", "done"} \/ created.made)
             => CheckSucceeded(flow.check)
        /\ created.made
             => /\ flow.step = "done"
                /\ created.data.area_type \in AreaTypes
                /\ created.data.polling_interval \in PollingIntervals
        /\ flow.errors = "cannot_connect"
             => /\ flow.step = "user"
                /\ CheckFailed(flow.check)
                /\ flow.config_data = EmptyConfigData
                /\ ~created.made)
  /\ [][/\ (flow.step = "user" /\ flow'.user_input.step = "user"
              /\ CheckFailed(flow'.check))
             => /\ flow'.step = "user"
                /\ flow'.errors = "cannot_connect"
                /\ flow'.config_data = flow.config_data
                /\ created' = created
        /\ flow'.config_data.area_type # flow.config_data.area_type
             => flow.step = "area" /\ CheckSucceeded(flow.check)
        /\ created' # created
             => /\ flow.step \in {"area", "regions", "counties"}
                /\ flow'.config_data.area_type \in AreaTypes
                /\ created'.data = flow'.config_data]_vars

C17_Witness ==
  /\ created.made
  /\ created.data.area_type = "counties"
  /\ created.data.selected_counties = Selection({"cork"})
  /\ created.data.polling_interval = 60
  /\ flow.check = Response("response", 200)
  /\ flow.user_input.step = "counties"

=============================================================================
